---- MODULE Spec2Model ----
(***************************************************************************)
(* Model of the funnel-planning widget of src/assets/main.js (the          *)
(* TypeScript listing, lines 212-483): readFunnelConfig, persistConfig,    *)
(* loadConfig, renderFunnelSnapshot, setupAnalysisForm and                 *)
(* setupDownloadBrief.                                                     *)
(*                                                                         *)
(* Representation.  A text is a sequence of pieces; user-typed text is a   *)
(* sequence of one-character strings, fixed copy of the program is one     *)
(* piece per literal.  A JavaScript number is a record                     *)
(*   [k, neg, m, e]   k = "fin": (-1)^neg * m / 10^e  (m, e normalised),   *)
(*                    k = "nan", k = "inf" (signed by neg),                *)
(*                    k = "null": JSON null found where a number belongs,  *)
(* so that -0, NaN and the infinities stay distinct from the finite        *)
(* values, as they do in the program.                                      *)
(***************************************************************************)
EXTENDS Integers, Sequences, FiniteSets, TLC

\* ---------------------------------------------------------------- bounds
MaxLen == 3
MaxTimers == 2
TickMs == 3000

\* ------------------------------------------------------ program constants
FeedbackDelay == 6000

\* ------------------------------------------------------------- characters
Digits == <<"0", "1", "2", "3", "4", "5", "6", "7", "8", "9">>

DigitSet == {Digits[i] : i \in 1..10}

DigitVal(c) == (CHOOSE i \in 1..10 : Digits[i] = c) - 1

WhiteSpace == {" "}

InfinityLit == <<"I", "n", "f", "i", "n", "i", "t", "y">>

RECURSIVE Pow10(_)
Pow10(n) == IF n = 0 THEN 1 ELSE 10 * Pow10(n - 1)

\* ---------------------------------------------------------------- numbers
Fin(neg, m, e) == [k |-> "fin", neg |-> neg, m |-> m, e |-> e]

Zero == Fin(FALSE, 0, 0)

NaN == [k |-> "nan", neg |-> FALSE, m |-> 0, e |-> 0]

Inf(neg) == [k |-> "inf", neg |-> neg, m |-> 0, e |-> 0]

Null == [k |-> "null", neg |-> FALSE, m |-> 0, e |-> 0]

RECURSIVE Normalize(_, _, _)
Normalize(neg, m, e) ==
  IF e > 0 /\ m % 10 = 0 THEN Normalize(neg, m \div 10, e - 1) ELSE Fin(neg, m, e)

\* x >= 0 as JavaScript evaluates it on a number (false for NaN, true for -0)
GeZero(x) ==
  CASE x.k = "fin" -> (~x.neg \/ x.m = 0)
    [] x.k = "inf" -> ~x.neg
    [] OTHER -> FALSE

\* x === y on two numbers (NaN differs from itself, -0 equals +0);
\* a null never equals a number
StrictEq(x, y) ==
  CASE x.k = "nan" \/ y.k = "nan" -> FALSE
    [] x.k = "null" \/ y.k = "null" -> x.k = y.k
    [] x.k = "fin" /\ y.k = "fin" -> x.m = y.m /\ x.e = y.e /\ (x.neg = y.neg \/ x.m = 0)
    [] OTHER -> x = y

\* ------------------------------------------------------------------ texts
RECURSIVE TrimStart(_)
TrimStart(s) ==
  IF s # <<>> /\ Head(s) \in WhiteSpace THEN TrimStart(Tail(s)) ELSE s

RECURSIVE TrimEnd(_)
TrimEnd(s) ==
  IF s # <<>> /\ s[Len(s)] \in WhiteSpace THEN TrimEnd(SubSeq(s, 1, Len(s) - 1)) ELSE s

\* String.prototype.trim
Trim(s) == TrimEnd(TrimStart(s))

RECURSIVE DigitsValue(_)
DigitsValue(s) ==
  IF s = <<>> THEN 0 ELSE 10 * DigitsValue(SubSeq(s, 1, Len(s) - 1)) + DigitVal(s[Len(s)])

RECURSIVE NatDigits(_)
NatDigits(n) ==
  IF n < 10 THEN <<Digits[n + 1]>> ELSE NatDigits(n \div 10) \o <<Digits[(n % 10) + 1]>>

RECURSIVE PadLeft(_, _)
PadLeft(s, n) == IF Len(s) >= n THEN s ELSE PadLeft(<<"0">> \o s, n)

DotPositions(s) == {i \in 1..Len(s) : s[i] = "."}

\* StrUnsignedDecimalLiteral without an exponent part: digits with at most
\* one dot and at least one digit
IsDecimalLiteral(s) ==
  /\ s # <<>>
  /\ \A i \in 1..Len(s) : s[i] \in DigitSet \cup {"."}
  /\ Cardinality(DotPositions(s)) <= 1
  /\ \E i \in 1..Len(s) : s[i] \in DigitSet

\* the value of the decimal literal s whose dot, if any, is at position d
DecimalAt(neg, s, d) ==
  Normalize(neg, DigitsValue(SubSeq(s, 1, d - 1) \o SubSeq(s, d + 1, Len(s))), Len(s) - d)

DecimalValue(neg, s) ==
  IF DotPositions(s) = {} THEN Normalize(neg, DigitsValue(s), 0)
  ELSE DecimalAt(neg, s, CHOOSE i \in DotPositions(s) : TRUE)

\* StrDecimalLiteral after its sign
ParseUnsigned(neg, body) ==
  IF body = InfinityLit THEN Inf(neg)
  ELSE IF IsDecimalLiteral(body) THEN DecimalValue(neg, body)
  ELSE NaN

\* StringToNumber on a text without surrounding white space
ParseTrimmed(t) ==
  IF t = <<>> THEN Zero
  ELSE IF Head(t) \in {"-", "+"} THEN ParseUnsigned(Head(t) = "-", Tail(t))
  ELSE ParseUnsigned(FALSE, t)

\* Number(text): the StringToNumber conversion, for texts over an alphabet
\* without exponent or radix-prefix letters
StringToNumber(s) == ParseTrimmed(Trim(s))

\* the digits of m / 10^e before the point
IntDigits(m, e) == NatDigits(m \div Pow10(e))

\* the point and the e digits after it, if any
FracDigits(m, e) ==
  IF e = 0 THEN <<>> ELSE <<".">> \o PadLeft(NatDigits(m % Pow10(e)), e)

NonFiniteName(x) == IF x.k = "nan" THEN <<"N", "a", "N">> ELSE InfinityLit

\* Number.prototype.toString (radix 10), for magnitudes written without an
\* exponent
NumberToString(x) ==
  IF x.k # "fin" THEN (IF x.neg THEN <<"-">> ELSE <<>>) \o NonFiniteName(x)
  ELSE (IF x.neg /\ x.m # 0 THEN <<"-">> ELSE <<>>) \o IntDigits(x.m, x.e) \o FracDigits(x.m, x.e)

\* m / 10^e rounded to f fraction digits, ties away from zero on the magnitude
RoundScaled(m, e, f) ==
  IF e <= f THEN m * Pow10(f - e)
  ELSE (m + (Pow10(e - f) \div 2)) \div Pow10(e - f)

\* Number.prototype.toFixed(0)
ToFixed0(x) ==
  IF x.k # "fin" THEN (IF x.neg THEN <<"-">> ELSE <<>>) \o NonFiniteName(x)
  ELSE (IF x.neg /\ x.m # 0 THEN <<"-">> ELSE <<>>) \o NatDigits(RoundScaled(x.m, x.e, 0))

RECURSIVE GroupThousands(_)
GroupThousands(ds) ==
  IF Len(ds) <= 3 THEN ds
  ELSE GroupThousands(SubSeq(ds, 1, Len(ds) - 3)) \o <<",">> \o SubSeq(ds, Len(ds) - 2, Len(ds))

\* a finite number in the en-US format: grouped integer digits, fraction
GroupedDigits(r) ==
  (IF r.neg THEN <<"-">> ELSE <<>>) \o GroupThousands(IntDigits(r.m, r.e)) \o FracDigits(r.m, r.e)

\* x with at most f fraction digits
RoundTo(x, f) == IF x.e <= f THEN x ELSE Normalize(x.neg, RoundScaled(x.m, x.e, f), f)

\* Number.prototype.toLocaleString() in the en-US locale: grouped integer
\* part, at most three fraction digits
ToLocaleString(x) ==
  IF x.k = "nan" THEN <<"N", "a", "N">>
  ELSE IF x.k = "inf" THEN (IF x.neg THEN <<"-">> ELSE <<>>) \o <<"Infinity-sign">>
  ELSE GroupedDigits(RoundTo(x, 3))

\* ---------------------------------------------------------- stage catalog
StageKey == {"awareness", "consideration", "conversion", "retention"}

stageDescriptions ==
  [awareness |-> "Build omnichannel reach with paid social, influencer partnerships, and hero content hubs.",
   consideration |-> "Drive mid-funnel intent with progressive profiling, comparison guides, and nurture sequences.",
   conversion |-> "Optimize acquisition moments with CRO testing, sales enablement, and automated onboarding.",
   retention |-> "Expand lifetime value through loyalty programs, lifecycle messaging, and advocacy campaigns."]

stageKpis ==
  [awareness |-> "Primary KPIs: reach, CPM efficiency, and top-of-funnel CTR.",
   consideration |-> "Primary KPIs: MQL velocity, content engagement depth, and remarketing lift.",
   conversion |-> "Primary KPIs: CAC trendline, pipeline velocity, and on-site conversion rate.",
   retention |-> "Primary KPIs: repeat purchase rate, churn reduction, and NPS elevation."]

\* stage.charAt(0).toUpperCase() + stage.slice(1), on the closed set
StageLabel ==
  [awareness |-> "Awareness", consideration |-> "Consideration",
   conversion |-> "Conversion", retention |-> "Retention"]

\* stage.toUpperCase(), on the closed set
StageUpper ==
  [awareness |-> "AWARENESS", consideration |-> "CONSIDERATION",
   conversion |-> "CONVERSION", retention |-> "RETENTION"]

\* ------------------------------------------------------------------- form
\* the input[name="stage"] checkboxes, by value, in document order
StageInputs == <<"awareness", "consideration", "conversion", "retention">>

StageIdx == 1..Len(StageInputs)

\* a named field of the form: has = FALSE when the form has no such entry
Field(s) == [has |-> TRUE, v |-> s]

AbsentField == [has |-> FALSE, v |-> <<>>]

RECURSIVE CheckedValues(_, _)
CheckedValues(checked, i) ==
  IF i > Len(StageInputs) THEN <<>>
  ELSE (IF checked[i] THEN <<StageInputs[i]>> ELSE <<>>) \o CheckedValues(checked, i + 1)

\* formData.getAll('stage'): the values of the checked boxes, document order
GetAllStage(form) == CheckedValues(form.stage, 1)

\* formData.get('newsletter'): "on" for a checked box, no entry otherwise
GetNewsletter(form) == IF form.newsletter THEN "on" ELSE "null"

\* variant: the default names every stage of the catalog
DefaultStagesAll == <<"awareness", "consideration", "conversion", "retention">>

DefaultStages == <<"awareness", "consideration", "conversion">>

\* formData.get(name)?.toString().trim() ?? ''
ReadText(fld) == IF fld.has THEN Trim(fld.v) ELSE <<>>

\* Number(formData.get(name) ?? 0)
ReadNumber(fld) == IF fld.has THEN StringToNumber(fld.v) ELSE Zero

\* stages.length > 0 ? stages : [the defaults]
StagesOrDefault(stages) == IF Len(stages) > 0 THEN stages ELSE DefaultStages

readFunnelConfig(form) ==
  [business |-> ReadText(form.business),
   industry |-> ReadText(form.industry),
   sessions |-> ReadNumber(form.sessions),
   cpa |-> ReadNumber(form.cpa),
   stages |-> StagesOrDefault(GetAllStage(form)),
   newsletter |-> GetNewsletter(form) = "on"]

\* ------------------------------------------------------------- ConfigCodec
\* JSON text of a string value (the alphabet holds no character that needs
\* an escape)
JSONQuote(s) == <<"\"">> \o s \o <<"\"">>

JSONUnquote(t) == SubSeq(t, 2, Len(t) - 1)

\* variant: numbers serialised without their fraction digits
JSONNumberWhole(x) == IF x.k = "fin" THEN ToFixed0(x) ELSE <<"null">>

\* JSON text of a number: non-finite numbers serialise as null
JSONNumber(x) == IF x.k = "fin" THEN NumberToString(x) ELSE <<"null">>

JSONParseNumber(t) == IF t = <<"null">> THEN Null ELSE StringToNumber(t)

RECURSIVE MapQuote(_)
MapQuote(ss) == IF ss = <<>> THEN <<>> ELSE <<JSONQuote(<<Head(ss)>>)>> \o MapQuote(Tail(ss))

RECURSIVE MapUnquote(_)
MapUnquote(ts) == IF ts = <<>> THEN <<>> ELSE JSONUnquote(Head(ts)) \o MapUnquote(Tail(ts))

\* JSON.stringify(config): the member texts of the serialised object
JSONStringify(config) ==
  [business |-> JSONQuote(config.business),
   industry |-> JSONQuote(config.industry),
   sessions |-> JSONNumber(config.sessions),
   cpa |-> JSONNumber(config.cpa),
   stages |-> MapQuote(config.stages),
   newsletter |-> IF config.newsletter THEN "true" ELSE "false"]

\* JSON.parse of a text produced by JSONStringify
JSONParseConfig(j) ==
  [business |-> JSONUnquote(j.business),
   industry |-> JSONUnquote(j.industry),
   sessions |-> JSONParseNumber(j.sessions),
   cpa |-> JSONParseNumber(j.cpa),
   stages |-> MapUnquote(j.stages),
   newsletter |-> j.newsletter = "true"]

NoJSON == JSONStringify(readFunnelConfig(
            [business |-> AbsentField, industry |-> AbsentField,
             sessions |-> AbsentField, cpa |-> AbsentField,
             stage |-> [i \in StageIdx |-> FALSE], newsletter |-> FALSE]))

\* the slot localStorage['foxytrailz23:funnel']: unset, a serialised config,
\* or any other text
SlotUnset == [kind |-> "unset", raw |-> "", json |-> NoJSON]

SlotConfig(j) == [kind |-> "json", raw |-> "", json |-> j]

SlotRaw(r) == [kind |-> "raw", raw |-> r, json |-> NoJSON]

\* texts other than a serialised config that the slot can hold:
\* empty, unparseable, and JSON values that are not a config
RawTexts == {"", "{oops", "null", "0", "false", "42", "{}"}

\* a value loadConfig can return: undefined, null, a config, or another
\* JSON value (falsy: 0, false; truthy: 42, {})
Undefined == [t |-> "undefined", truthy |-> FALSE, cfg |-> JSONParseConfig(NoJSON)]

Loaded(t, truthy) == [t |-> t, truthy |-> truthy, cfg |-> JSONParseConfig(NoJSON)]

LoadedConfig(c) == [t |-> "config", truthy |-> TRUE, cfg |-> c]

\* JSON.parse(raw) for the raw texts; "throw" is the SyntaxError
JSONParseRaw(r) ==
  CASE r = "null" -> Loaded("null", FALSE)
    [] r = "0" -> Loaded("other", FALSE)
    [] r = "false" -> Loaded("other", FALSE)
    [] r = "42" -> Loaded("other", TRUE)
    [] r = "{}" -> Loaded("other", TRUE)
    [] OTHER -> Loaded("throw", FALSE)

loadConfig(slot) ==
  CASE slot.kind = "unset" -> Undefined
    [] slot.kind = "json" -> LoadedConfig(JSONParseConfig(slot.json))
    [] OTHER ->
       IF slot.raw = "" \/ JSONParseRaw(slot.raw).t = "throw" THEN Undefined
       ELSE JSONParseRaw(slot.raw)

\* variant: no catch around setItem
persistConfigNoCatch(slot, config, writable) ==
  IF writable THEN [slot |-> SlotConfig(JSONStringify(config)), threw |-> FALSE]
  ELSE [slot |-> slot, threw |-> TRUE]

\* persistConfig(config) on slot, where writable tells whether setItem
\* succeeds: the new slot, and whether an error leaves the function
persistConfig(slot, config, writable) ==
  IF writable THEN [slot |-> SlotConfig(JSONStringify(config)), threw |-> FALSE]
  ELSE [slot |-> slot, threw |-> FALSE]

\* -------------------------------------------------------- SnapshotRenderer
Elem(tag, text) == [tag |-> tag, text |-> text]

\* variant: the container is not emptied
KeepChildren(children) == children

\* container.replaceChildren() with no argument
ReplaceChildren(children) == <<>>

\* value || fallback on a string
OrElse(text, fallback) == IF text # <<>> THEN text ELSE <<fallback>>

RECURSIVE StageElems(_)
StageElems(stages) ==
  IF stages = <<>> THEN <<>>
  ELSE <<Elem("dt", <<StageLabel[Head(stages)]>>),
         Elem("dd", <<stageDescriptions[Head(stages)], " ", stageKpis[Head(stages)]>>)>>
       \o StageElems(Tail(stages))

NurtureText(newsletter) ==
  IF newsletter
  THEN <<"Weekly insight digest activated. You will receive optimization briefs straight to your inbox.">>
  ELSE <<"Newsletter insights skipped. Add email sync to stay aligned with funnel experiments.">>

\* a method call on config.sessions or config.cpa raises a TypeError when
\* the member is null
NumbersCallable(config) == config.sessions.k # "null" /\ config.cpa.k # "null"

SummaryText(config) ==
  <<"Industry focus: ">> \o OrElse(config.industry, "General")
  \o <<" | Monthly sessions: ">> \o ToLocaleString(config.sessions)
  \o <<" | Target CPA: $">> \o ToFixed0(config.cpa)

\* the appends of renderFunnelSnapshot on the emptied container c0, cut
\* short after the heading where the summary raises
AppendSnapshot(c0, config) ==
  IF ~NumbersCallable(config)
  THEN [children |->
          Append(c0, Elem("dt", OrElse(config.business, "Your brand") \o <<" funnel overview">>)),
        threw |-> TRUE]
  ELSE [children |->
          c0 \o <<Elem("dt", OrElse(config.business, "Your brand") \o <<" funnel overview">>),
                  Elem("dd", SummaryText(config))>>
             \o StageElems(config.stages)
             \o <<Elem("dd", NurtureText(config.newsletter))>>,
        threw |-> FALSE]

\* renderFunnelSnapshot(config) on a container holding children: the new
\* children, and whether an error leaves the function
renderFunnelSnapshot(children, config) == AppendSnapshot(ReplaceChildren(children), config)

\* ----------------------------------------------------------- BriefExporter
RECURSIVE StageLines(_, _)
StageLines(stages, catalog) ==
  IF stages = <<>> THEN <<>>
  ELSE <<(<<StageUpper[Head(stages)], ": ", catalog[Head(stages)]>>)>>
       \o StageLines(Tail(stages), catalog)

RECURSIVE JoinComma(_)
JoinComma(stages) ==
  IF stages = <<>> THEN <<>>
  ELSE IF Len(stages) = 1 THEN <<Head(stages)>>
  ELSE <<Head(stages), ", ">> \o JoinComma(Tail(stages))

\* the lines array of the click handler, for a config whose numbers are
\* callable
BriefLines(config) ==
  <<(<<"FoxyTrailz23 Growth Brief">>),
    <<"Business: ">> \o OrElse(config.business, "Not specified"),
    <<"Industry: ">> \o OrElse(config.industry, "Not specified"),
    <<"Monthly Sessions: ">> \o ToLocaleString(config.sessions),
    <<"Target CPA: $">> \o ToFixed0(config.cpa),
    <<"Stages: ">> \o JoinComma(config.stages),
    (<<"Newsletter Sync: ", IF config.newsletter THEN "Enabled" ELSE "Disabled">>),
    <<>>,
    (<<"Stage Strategy:">>)>>
  \o StageLines(config.stages, stageDescriptions)
  \o <<(<<>>), (<<"KPIs:">>)>>
  \o StageLines(config.stages, stageKpis)

\* stored ?? readFunnelConfig(form): only undefined and null fall back
OrReadForm(stored, form) ==
  IF stored.t \in {"undefined", "null"} THEN LoadedConfig(readFunnelConfig(form))
  ELSE stored

ExportSource(slot, form) == OrReadForm(loadConfig(slot), form)

\* the lines built from src, and whether an error leaves the handler (a
\* member of a value that is not a config is undefined)
BriefOf(src) ==
  IF src.t = "config" /\ NumbersCallable(src.cfg)
  THEN [lines |-> BriefLines(src.cfg), threw |-> FALSE]
  ELSE [lines |-> <<>>, threw |-> TRUE]

\* the click handler
DownloadBrief(slot, form) == BriefOf(ExportSource(slot, form))

\* -------------------------------------------------------- setupAnalysisForm
SetChecked(stages) ==
  [i \in StageIdx |-> \E j \in 1..Len(stages) : stages[j] = StageInputs[i]]

SyncTexts(form, config) ==
  [form EXCEPT !.business.v = config.business, !.industry.v = config.industry]

SyncSessions(form, config) ==
  [form EXCEPT !.sessions.v = NumberToString(config.sessions)]

SyncRest(form, config) ==
  [form EXCEPT !.cpa.v = NumberToString(config.cpa),
               !.newsletter = config.newsletter,
               !.stage = SetChecked(config.stages)]

\* syncFormWithConfig(config) for a stored config: assignments in source
\* order, cut short where config.sessions.toString() or
\* config.cpa.toString() raises
syncFormWithConfig(form, config) ==
  IF config.sessions.k = "null"
  THEN [form |-> SyncTexts(form, config), threw |-> TRUE]
  ELSE IF config.cpa.k = "null"
  THEN [form |-> SyncSessions(SyncTexts(form, config), config), threw |-> TRUE]
  ELSE [form |-> SyncRest(SyncSessions(SyncTexts(form, config), config), config),
        threw |-> FALSE]

\* syncFormWithConfig on a truthy stored value that is not a config: the
\* text members are undefined, and sessions.toString() raises
SyncWithOther(form) ==
  [form |-> [form EXCEPT !.business.v = <<"undefined">>, !.industry.v = <<"undefined">>],
   threw |-> TRUE]

FeedbackMsg == "Plan summary generated and saved. We will tailor the analytics rollout for you."

\* variant: the callback leaves the message in place
KeepFeedback(text) == text

\* the callback of window.setTimeout: feedback.textContent = ''
ClearFeedback(text) == ""

\* ------------------------------------------------------------------ state
VARIABLES
  form,      \* the fields of #analysis-form
  slot,      \* localStorage['foxytrailz23:funnel']
  display,   \* the children of #funnel-plan-output
  feedback,  \* #analysis-feedback textContent
  timers,    \* pending setTimeout callbacks, oldest first: ms left to due
  booted,    \* "pending" before bootstrap, then "ok", or "failed" when it threw
  last,      \* the event handled by the last step
  threw,     \* whether an error left the last handler
  wrote,     \* whether the last submit's setItem succeeded
  shown,     \* the config last passed to renderFunnelSnapshot
  download   \* the lines of the brief delivered by the last step, if any

vars == <<form, slot, display, feedback, timers, booted, last, threw, wrote, shown, download>>

\* ----------------------------------------------------------------- inputs
NumChars == {" ", "-", "5", ".", "a"}

TextChars == {" ", "A"}

RECURSIVE SeqsUpTo(_, _)
SeqsUpTo(S, n) ==
  IF n = 0 THEN {<<>>}
  ELSE LET shorter == SeqsUpTo(S, n - 1)
       IN shorter \cup {Append(t, c) : t \in shorter, c \in S}

\* the texts a numeric field can hold
NumTexts == SeqsUpTo(NumChars, MaxLen) \cup {InfinityLit, <<"-">> \o InfinityLit}

ProbeNumTexts == {<<>>, <<"4", "2", ".", "7">>, <<"1", "0", "0", "0">>}

NameTexts == SeqsUpTo(TextChars, MaxLen)

AllFields(S) == {AbsentField} \cup {Field(t) : t \in S}

EmptyForm ==
  [business |-> Field(<<>>), industry |-> Field(<<>>),
   sessions |-> Field(<<>>), cpa |-> Field(<<>>),
   stage |-> [i \in StageIdx |-> FALSE], newsletter |-> FALSE]

\* form states of the page as loaded, one group of fields varying at a time
WideForms ==
  {[EmptyForm EXCEPT !.sessions = a, !.cpa = b] :
      a \in AllFields(NumTexts), b \in AllFields(ProbeNumTexts)}
  \cup {[EmptyForm EXCEPT !.sessions = b, !.cpa = a] :
      a \in AllFields(NumTexts), b \in AllFields(ProbeNumTexts)}
  \cup {[EmptyForm EXCEPT !.business = a, !.industry = b, !.newsletter = n] :
      a \in AllFields(NameTexts), b \in AllFields({<<>>, <<"B", " ">>}), n \in BOOLEAN}
  \cup {[EmptyForm EXCEPT !.stage = c, !.newsletter = n, !.sessions = Field(a)] :
      c \in [StageIdx -> BOOLEAN], n \in BOOLEAN, a \in ProbeNumTexts}

\* what the user types or toggles in the event-driven specification
TypedBusiness == {<<>>, <<" ", "A">>}

TypedSessions == {<<>>, <<"7">>, <<"a">>}

ToggledStages == {4}

InitialDisplay == <<>>

InitialConfig == readFunnelConfig(EmptyForm)

\* ---------------------------------------------------------------- actions
InitCommon ==
  /\ display = InitialDisplay
  /\ feedback = ""
  /\ timers = <<>>
  /\ booted = "pending"
  /\ last = "none"
  /\ threw = FALSE
  /\ wrote = FALSE
  /\ shown = InitialConfig
  /\ download = <<>>

\* the page before bootstrap runs; the slot holds whatever an earlier
\* session or another writer of the origin left there
Init ==
  /\ form = EmptyForm
  /\ slot \in {SlotUnset} \cup {SlotRaw(r) : r \in RawTexts}
  /\ InitCommon

InitWide ==
  /\ form \in WideForms
  /\ slot = SlotUnset
  /\ InitCommon

\* the branch of setupAnalysisForm on stored: the form after it and whether
\* syncFormWithConfig raised
SyncStored(stored) ==
  IF ~stored.truthy THEN [form |-> form, threw |-> FALSE]
  ELSE IF stored.t = "config" THEN syncFormWithConfig(form, stored.cfg)
  ELSE SyncWithOther(form)

\* the config setupAnalysisForm renders: stored, or the form's
FirstConfig(stored) == IF stored.truthy THEN stored.cfg ELSE readFunnelConfig(form)

\* the outcome of a handler that rendered config with result r
Rendered(config, r) ==
  /\ display' = r.children
  /\ shown' = config
  /\ threw' = r.threw

RenderConfig(config) == Rendered(config, renderFunnelSnapshot(display, config))

BootstrapWith(synced, config) ==
  /\ form' = synced.form
  /\ IF synced.threw
     THEN /\ UNCHANGED <<display, shown>>
          /\ threw' = TRUE
     ELSE RenderConfig(config)
  /\ booted' = IF threw' THEN "failed" ELSE "ok"

BootstrapFrom(stored) == BootstrapWith(SyncStored(stored), FirstConfig(stored))

\* bootstrap(): setupAnalysisForm then setupDownloadBrief; an error in
\* setupAnalysisForm leaves bootstrap before any listener is attached
Bootstrap ==
  /\ booted = "pending"
  /\ BootstrapFrom(loadConfig(slot))
  /\ last' = "init"
  /\ download' = <<>>
  /\ UNCHANGED <<slot, feedback, timers, wrote>>

\* the input listener: updateOutput()
UpdateOutput(newForm) ==
  /\ form' = newForm
  /\ form' # form
  /\ RenderConfig(readFunnelConfig(newForm))
  /\ last' = "input"
  /\ download' = <<>>
  /\ UNCHANGED <<slot, feedback, timers, booted, wrote>>

Input ==
  /\ booted = "ok"
  /\ \/ \E t \in TypedBusiness : UpdateOutput([form EXCEPT !.business.v = t])
     \/ \E t \in TypedSessions : UpdateOutput([form EXCEPT !.sessions.v = t])
     \/ \E i \in ToggledStages : UpdateOutput([form EXCEPT !.stage[i] = ~form.stage[i]])

\* the statements of the submit listener after persistConfig returned p
\* (or raised)
AfterPersist(p, writable) ==
  /\ slot' = p.slot
  /\ threw' = p.threw
  /\ wrote' = writable
  /\ IF p.threw
     THEN UNCHANGED <<feedback, timers>>
     ELSE /\ feedback' = FeedbackMsg
          /\ timers' = Append(timers, FeedbackDelay)

\* the submit listener on config, rendered with result r
SubmitConfig(config, r, writable) ==
  /\ display' = r.children
  /\ shown' = config
  /\ IF r.threw
     THEN /\ threw' = TRUE
          /\ wrote' = FALSE
          /\ UNCHANGED <<slot, feedback, timers>>
     ELSE AfterPersist(persistConfig(slot, config, writable), writable)

SubmitRead(config, writable) ==
  SubmitConfig(config, renderFunnelSnapshot(display, config), writable)

\* the submit listener; writable is whether localStorage.setItem succeeds
Submit ==
  /\ booted = "ok"
  /\ Len(timers) < MaxTimers
  /\ \E writable \in BOOLEAN : SubmitRead(readFunnelConfig(form), writable)
  /\ last' = "submit"
  /\ download' = <<>>
  /\ UNCHANGED <<form, booted>>

\* the click listener of #download-brief
Export ==
  /\ booted = "ok"
  /\ download' = DownloadBrief(slot, form).lines
  /\ threw' = DownloadBrief(slot, form).threw
  /\ last' = "export"
  /\ UNCHANGED <<form, slot, display, feedback, timers, booted, wrote, shown>>

\* TickMs of time pass
Tick ==
  /\ \E i \in 1..Len(timers) : timers[i] > 0
  /\ timers' = [i \in 1..Len(timers) |-> IF timers[i] > TickMs THEN timers[i] - TickMs ELSE 0]
  /\ last' = "tick"
  /\ threw' = FALSE
  /\ download' = <<>>
  /\ UNCHANGED <<form, slot, display, feedback, booted, wrote, shown>>

\* the oldest pending timeout is due and its callback runs
TimerFire ==
  /\ timers # <<>>
  /\ Head(timers) = 0
  /\ feedback' = ClearFeedback(feedback)
  /\ timers' = Tail(timers)
  /\ last' = "timer"
  /\ threw' = FALSE
  /\ download' = <<>>
  /\ UNCHANGED <<form, slot, display, booted, wrote, shown>>

\* the page is loaded again: a new document, the slot survives
Reload ==
  /\ booted # "pending"
  /\ form' = EmptyForm
  /\ display' = InitialDisplay
  /\ feedback' = ""
  /\ timers' = <<>>
  /\ booted' = "pending"
  /\ last' = "none"
  /\ threw' = FALSE
  /\ wrote' = FALSE
  /\ shown' = InitialConfig
  /\ download' = <<>>
  /\ UNCHANGED slot

Next == Bootstrap \/ Input \/ Submit \/ Export \/ Tick \/ TimerFire \/ Reload

Spec == Init /\ [][Next]_vars

NextWide == Bootstrap \/ Submit \/ Export

SpecWide == InitWide /\ [][NextWide]_vars

\* ----------------------------------------------------------------- claims
\* a text that denotes a number: an optionally signed decimal numeral,
\* surrounding white space allowed
NumericText(s) ==
  LET t == Trim(s)
      body == IF t # <<>> /\ Head(t) \in {"-", "+"} THEN Tail(t) ELSE t
  IN IsDecimalLiteral(body)

NonNumericField(fld) == ~fld.has \/ ~NumericText(fld.v)

Finite(x) == x.k = "fin"

\* field-by-field equality of two configs, numbers compared with ===
ConfigEq(a, b) ==
  /\ a.business = b.business
  /\ a.industry = b.industry
  /\ StrictEq(a.sessions, b.sessions)
  /\ StrictEq(a.cpa, b.cpa)
  /\ a.stages = b.stages
  /\ a.newsletter = b.newsletter

CheckedIdx == {i \in StageIdx : form.stage[i]}

\* C1: once the form has been read (bootstrap with an unset slot, or a
\* submit), the config read has sessions = 0 when the sessions field is
\* absent or holds non-numeric text, and cpa = 0 likewise.
C1_NonNumericReadsZero ==
  booted = "ok" =>
    /\ (NonNumericField(form.sessions) => shown.sessions = Zero)
    /\ (NonNumericField(form.cpa) => shown.cpa = Zero)

\* C2: for any text in the sessions and cpa fields, the config read has
\* sessions >= 0 and cpa >= 0.
C2_NonNegative ==
  booted = "ok" => GeZero(shown.sessions) /\ GeZero(shown.cpa)

C4_MalformedIsAbsent ==
  slot.kind = "raw" =>
    /\ (last = "init" =>
          /\ ~threw
          /\ booted = "ok"
          /\ display = renderFunnelSnapshot(<<>>, readFunnelConfig(form)).children)
    /\ (last = "export" =>
          /\ ~threw
          /\ download = BriefLines(readFunnelConfig(form)))

\* C5: a submit whose store write fails still completes: no error leaves the
\* handler, the snapshot shows the submitted form state, the feedback message
\* is set, the slot keeps its previous content and the listeners stay
\* attached.
C5_WriteFailureSwallowed ==
  [][(last' = "submit" /\ ~wrote') =>
       /\ ~threw'
       /\ slot' = slot
       /\ feedback' = FeedbackMsg
       /\ display' = renderFunnelSnapshot(<<>>, readFunnelConfig(form)).children
       /\ booted' = "ok"]_vars

C5_Witness ==
  /\ last = "submit"
  /\ ~wrote
  /\ ~threw
  /\ slot.kind = "json"
  /\ ~ConfigEq(JSONParseConfig(slot.json), shown)
  /\ feedback = FeedbackMsg

\* C6: with no stage box checked the config read has stages =
\* <<awareness, consideration, conversion>>; with some box checked it has
\* exactly the values of the checked boxes, in document order.
C6_Stages ==
  booted = "ok" =>
    IF CheckedIdx = {}
    THEN shown.stages = <<"awareness", "consideration", "conversion">>
    ELSE /\ Len(shown.stages) = Cardinality(CheckedIdx)
         /\ \A n \in 1..Len(shown.stages) :
              \E i \in CheckedIdx :
                /\ shown.stages[n] = StageInputs[i]
                /\ Cardinality({j \in CheckedIdx : j < i}) = n - 1

C6_Witness ==
  /\ last = "submit"
  /\ CheckedIdx = {}
  /\ shown.stages = <<"awareness", "consideration", "conversion">>

\* C7: an export builds the brief from the persisted config whenever the
\* slot holds one, and from the current form state when the slot is unset.
C7_ExportPrefersPersisted ==
  last = "export" =>
    /\ (slot.kind = "json" =>
          /\ ~threw
          /\ download = BriefLines(JSONParseConfig(slot.json)))
    /\ (slot.kind = "unset" =>
          /\ ~threw
          /\ download = BriefLines(readFunnelConfig(form)))

\* C8: once a snapshot has been rendered, the display holds exactly the
\* heading, the summary, a label/detail pair per stage of the config rendered
\* last, in order, and one closing line; nothing of earlier renderings is
\* left, and rendering that config again leaves the content as it is.
C8_SnapshotOfLast ==
  booted = "ok" =>
    /\ Len(display) = 3 + 2 * Len(shown.stages)
    /\ display[1] = Elem("dt", OrElse(shown.business, "Your brand") \o <<" funnel overview">>)
    /\ display[2] = Elem("dd", SummaryText(shown))
    /\ \A n \in 1..Len(shown.stages) :
         /\ display[2 * n + 1] = Elem("dt", <<StageLabel[shown.stages[n]]>>)
         /\ display[2 * n + 2] =
              Elem("dd", <<stageDescriptions[shown.stages[n]], " ", stageKpis[shown.stages[n]]>>)
    /\ display[Len(display)] = Elem("dd", NurtureText(shown.newsletter))
    /\ renderFunnelSnapshot(display, shown).children = display

C8_Witness ==
  /\ booted = "ok"
  /\ last = "input"
  /\ shown.stages = <<"retention">>
  /\ Len(display) = 5

\* C9: a submit leaves the feedback message set and a clear scheduled
\* FeedbackDelay ahead; a timer that fires empties the message, also when a
\* later submit's own timer is still pending; and once no timer is pending
\* the message is empty.
C9_FeedbackTimers ==
  /\ (last = "submit" =>
        /\ feedback = FeedbackMsg
        /\ timers # <<>>
        /\ timers[Len(timers)] = FeedbackDelay)
  /\ (last = "timer" => feedback = "")
  /\ (timers = <<>> => feedback = "")

\* the stale clear of an earlier submit has erased the message of a later
\* one, whose own delay has not elapsed
C9_Witness ==
  /\ last = "timer"
  /\ feedback = ""
  /\ timers # <<>>
  /\ timers[Len(timers)] > 0

\* C10: after bootstrap and after every input or submit, the display is the
\* rendering of the config read from the current form state; and when
\* bootstrap restored a persisted config, the form reads back as that config.
C10_DisplayMatchesForm ==
  last \in {"init", "input", "submit"} =>
    /\ ~threw
    /\ display = renderFunnelSnapshot(<<>>, readFunnelConfig(form)).children
    /\ ((last = "init" /\ slot.kind = "json") =>
           ConfigEq(readFunnelConfig(form), JSONParseConfig(slot.json)))
====
